---- MODULE Spec2Model ----
(***************************************************************************)
(* Model of the `mem` crate of emu8086: the BusDevice capability, the      *)
(* RegionBusDevice extension, the Memory and ReadOnlyMemory stores         *)
(* (interface.rs) and the MemoryMap router (mapping.rs).                   *)
(*                                                                         *)
(* Three specifications share the variables:                               *)
(*   Spec        a router under construction and use:                      *)
(*               add_range / with_range / read / write                     *)
(*   DeviceSpec  one finished device, a store or a router of stores:       *)
(*               read / write / read_region / write_region                 *)
(*   NestedSpec  a router whose entry holds another router: read / write   *)
(*                                                                         *)
(* A device is a record: [kind, data] for the two stores, data[i + 1]      *)
(* being the byte at address i, and [kind, entries] for a router.          *)
(* Addresses are far below usize::MAX, so address + i never overflows.     *)
(***************************************************************************)
EXTENDS Integers, Sequences, FiniteSets, TLC

\* Addresses used for ranges and accesses are 0..MaxAddr.
MaxAddr == 2
\* Stores have capacity 0..MaxSize.
MaxSize == 2
\* The router holds at most MaxEntries entries.
MaxEntries == 2
\* Region operations move at most MaxRegion bytes.
MaxRegion == 2
\* Largest value of a u8.
U8Max == 255
\* The byte values that are written and stored.
ByteValues == {0, U8Max}

VARIABLES
    entries,  \* MemoryMap.entries of the router of Spec: sequence of [range, device]
    dev,      \* the device of DeviceSpec
    built,    \* `dev` as it was constructed
    last,     \* the last call and what it returned
    before    \* what the last call was made on, as it was before the call:
              \* `entries` in Spec, `dev` in DeviceSpec

vars == <<entries, dev, built, last, before>>

----------------------------------------------------------------------------
\* BusDeviceError and Result

AddressOutOfBounds(a, s) == [tag |-> "AddressOutOfBounds", address |-> a, size |-> s]
AddressNotWritable(a) == [tag |-> "AddressNotWritable", address |-> a]
AddressNotMapped(a) == [tag |-> "AddressNotMapped", address |-> a]

Ok(v) == [tag |-> "Ok", value |-> v]
OkUnit == [tag |-> "Ok"]
IsOk(r) == r.tag = "Ok"

\* dyn BusDevice: read returns a Result, write a [device, result] pair.
RECURSIVE DeviceRead(_, _)
RECURSIVE DeviceWrite(_, _, _)

----------------------------------------------------------------------------
\* Stores

Zeros(n) == [i \in 1..n |-> 0]

\* Memory::empty / ReadOnlyMemory::empty
Empty(kind, size) == [kind |-> kind, data |-> Zeros(size)]

\* Memory::filled / ReadOnlyMemory::filled
Filled(kind, data) == [kind |-> kind, data |-> data]

\* Memory::populated / ReadOnlyMemory::populated, for Len(data) <= size
\* (the constructor panics otherwise).
Populated(kind, size, data) ==
    [kind |-> kind,
     data |-> [i \in 1..size |-> IF i <= Len(data) THEN data[i] ELSE 0]]

\* self.0.get(address): Some iff address < len
MemoryRead(d, address) ==
    IF address < Len(d.data)
    THEN Ok(d.data[address + 1])
    ELSE AddressOutOfBounds(address, Len(d.data))

\* As MemoryWrite, but a write beyond the capacity is dropped silently.
MemoryWriteIgnore(d, address, data) ==
    IF address < Len(d.data)
    THEN [device |-> [d EXCEPT !.data[address + 1] = data], result |-> OkUnit]
    ELSE [device |-> d, result |-> OkUnit]

MemoryWrite(d, address, data) ==
    IF address < Len(d.data)
    THEN [device |-> [d EXCEPT !.data[address + 1] = data], result |-> OkUnit]
    ELSE [device |-> d, result |-> AddressOutOfBounds(address, Len(d.data))]

\* As ReadOnlyMemoryRead, but the bound is off by one.
ReadOnlyMemoryReadShort(d, address) ==
    IF address + 1 < Len(d.data)
    THEN Ok(d.data[address + 1])
    ELSE AddressOutOfBounds(address, Len(d.data))

ReadOnlyMemoryRead(d, address) ==
    IF address < Len(d.data)
    THEN Ok(d.data[address + 1])
    ELSE AddressOutOfBounds(address, Len(d.data))

\* As ReadOnlyMemoryWrite, but the bounds are checked first.
ReadOnlyMemoryWriteChecked(d, address, data) ==
    IF address < Len(d.data)
    THEN [device |-> d, result |-> AddressNotWritable(address)]
    ELSE [device |-> d, result |-> AddressOutOfBounds(address, Len(d.data))]

ReadOnlyMemoryWrite(d, address, data) ==
    [device |-> d, result |-> AddressNotWritable(address)]

----------------------------------------------------------------------------
\* MemoryMap

\* MemoryMap { entries }
MemoryMap(es) == [kind |-> "MemoryMap", entries |-> es]

\* RangeInclusive::contains
Contains(r, x) == r.start <= x /\ x <= r.end

\* The scan of mapping / mut_mapping from entry i on: the index of the
\* first entry whose range contains address, 0 for None.
RECURSIVE Scan(_, _, _)
Scan(es, address, i) ==
    IF i > Len(es) THEN 0
    ELSE IF Contains(es[i].range, address) THEN i
    ELSE Scan(es, address, i + 1)

\* As mapping, but the last entry whose range contains address wins.
mappingLast(es, address) ==
    LET hits == {i \in 1..Len(es) : Contains(es[i].range, address)} IN
    IF hits = {} THEN 0 ELSE CHOOSE i \in hits : \A j \in hits : j <= i

mapping(es, address) == Scan(es, address, 1)

mut_mapping(es, address) == Scan(es, address, 1)

\* As MapRead, but a device's error is re-based to the global address.
MapReadRebased(es, address) ==
    LET i == mapping(es, address) IN
    IF i = 0 THEN AddressNotMapped(address)
    ELSE LET r == DeviceRead(es[i].device, address - es[i].range.start) IN
         IF IsOk(r) THEN r ELSE [r EXCEPT !.address = address]

\* As MapRead, but only a store gets the entry's local offset: a router
\* registered as the device gets the address as it came in.
MapReadOnce(es, address) ==
    LET i == mapping(es, address) IN
    IF i = 0 THEN AddressNotMapped(address)
    ELSE IF es[i].device.kind = "MemoryMap"
         THEN DeviceRead(es[i].device, address)
         ELSE DeviceRead(es[i].device, address - es[i].range.start)

\* <MemoryMap as BusDevice>::read
MapRead(es, address) ==
    LET i == mapping(es, address) IN
    IF i = 0 THEN AddressNotMapped(address)
    ELSE DeviceRead(es[i].device, address - es[i].range.start)

\* As MapWrite, but every entry whose range contains address is written.
MapWriteAll(es, address, data) ==
    LET i == mut_mapping(es, address) IN
    IF i = 0 THEN [entries |-> es, result |-> AddressNotMapped(address)]
    ELSE [entries |->
            [j \in 1..Len(es) |->
                IF Contains(es[j].range, address)
                THEN [es[j] EXCEPT !.device =
                        DeviceWrite(@, address - es[j].range.start, data).device]
                ELSE es[j]],
          result |->
            DeviceWrite(es[i].device, address - es[i].range.start, data).result]

\* <MemoryMap as BusDevice>::write
MapWrite(es, address, data) ==
    LET i == mut_mapping(es, address) IN
    IF i = 0 THEN [entries |-> es, result |-> AddressNotMapped(address)]
    ELSE LET w == DeviceWrite(es[i].device, address - es[i].range.start, data)
         IN [entries |-> [es EXCEPT ![i].device = w.device], result |-> w.result]

\* As Overlaps, but any address shared with an existing entry is found.
OverlapsAny(es, range) ==
    \E i \in 1..Len(es) :
        es[i].range.start <= range.end /\ range.start <= es[i].range.end

\* The assert of add_range fails for some existing entry.
Overlaps(es, range) ==
    \E i \in 1..Len(es) :
        Contains(es[i].range, range.start) \/ Contains(es[i].range, range.end)

\* MemoryMap::add_range: panic, or push.
AddRangeTo(es, range, device) ==
    IF Overlaps(es, range)
    THEN [entries |-> es, result |-> "panic"]
    ELSE [entries |-> Append(es, [range |-> range, device |-> device]),
          result |-> "ok"]

----------------------------------------------------------------------------
\* BusDevice, dispatched on the kind of the device

DeviceRead(d, address) ==
    CASE d.kind = "Memory" -> MemoryRead(d, address)
      [] d.kind = "ReadOnlyMemory" -> ReadOnlyMemoryRead(d, address)
      [] d.kind = "MemoryMap" -> MapRead(d.entries, address)

DeviceWrite(d, address, data) ==
    CASE d.kind = "Memory" -> MemoryWrite(d, address, data)
      [] d.kind = "ReadOnlyMemory" -> ReadOnlyMemoryWrite(d, address, data)
      [] d.kind = "MemoryMap" ->
            LET w == MapWrite(d.entries, address, data) IN
            [device |-> MemoryMap(w.entries), result |-> w.result]

----------------------------------------------------------------------------
\* RegionBusDevice, the default methods every BusDevice gets

\* The loop of read_region from byte i on; result holds bytes 0..i-1.
RECURSIVE ReadRegionFrom(_, _, _, _, _)
ReadRegionFrom(d, address, SIZE, i, result) ==
    IF i >= SIZE THEN Ok(result)
    ELSE LET r == DeviceRead(d, address + i) IN
         IF IsOk(r)
         THEN ReadRegionFrom(d, address, SIZE, i + 1,
                             [result EXCEPT ![i + 1] = r.value])
         ELSE r

\* As ReadRegion, but every byte is read and the last error is returned.
ReadRegionLast(d, address, SIZE) ==
    LET failing == {i \in 0..(SIZE - 1) : ~IsOk(DeviceRead(d, address + i))} IN
    IF failing = {}
    THEN Ok([i \in 1..SIZE |-> DeviceRead(d, address + i - 1).value])
    ELSE DeviceRead(d, address + (CHOOSE i \in failing : \A j \in failing : j <= i))

\* As ReadRegion, but the bytes are assembled from the end of the array.
ReadRegionReversed(d, address, SIZE) ==
    LET r == ReadRegionFrom(d, address, SIZE, 0, Zeros(SIZE)) IN
    IF IsOk(r) THEN Ok([i \in 1..SIZE |-> r.value[SIZE + 1 - i]]) ELSE r

ReadRegion(d, address, SIZE) == ReadRegionFrom(d, address, SIZE, 0, Zeros(SIZE))

\* The loop of write_region from byte i on.
RECURSIVE WriteRegionFrom(_, _, _, _)
WriteRegionFrom(d, address, data, i) ==
    IF i >= Len(data) THEN [device |-> d, result |-> OkUnit]
    ELSE LET w == DeviceWrite(d, address + i, data[i + 1]) IN
         IF IsOk(w.result)
         THEN WriteRegionFrom(w.device, address, data, i + 1)
         ELSE w

\* As WriteRegion, but nothing is committed when some byte fails.
WriteRegionAtomic(d, address, data) ==
    LET w == WriteRegionFrom(d, address, data, 0) IN
    IF IsOk(w.result) THEN w ELSE [device |-> d, result |-> w.result]

WriteRegion(d, address, data) == WriteRegionFrom(d, address, data, 0)

----------------------------------------------------------------------------
\* Inputs

Addresses == 0..MaxAddr
\* The ranges given to add_range: start..=end with start <= end, as
\* everywhere in the repository.
Ranges == {r \in [start : Addresses, end : Addresses] : r.start <= r.end}
Kinds == {"Memory", "ReadOnlyMemory"}

\* The data the tests fill stores with, index % 256, over ByteValues.
TestData(size) == [i \in 1..size |-> IF (i - 1) % 2 = 0 THEN 0 ELSE U8Max]

\* The devices boxed into a router: plain stores of every capacity from
\* 1 on, and a read-only store.
Devices ==
    {Filled("Memory", TestData(s)) : s \in 1..MaxSize}
        \cup {Filled("ReadOnlyMemory", TestData(MaxSize))}

\* The byte strings of at most n bytes.
Data(n) == UNION {[1..m -> ByteValues] : m \in 0..n}

\* The byte strings given to write_region.
RegionData == Data(MaxRegion)

\* The stores the constructors build.
Stores ==
    {Empty(k, s) : k \in Kinds, s \in 0..MaxSize}
        \cup {Filled(k, d) : k \in Kinds, d \in Data(MaxSize)}
        \cup UNION {{Populated(k, s, d) : d \in Data(s)} :
                        k \in Kinds, s \in 0..MaxSize}

\* The routers under test: MemoryMap::new().with_range(r, d), and a one-byte
\* plain store at 0..=0 followed by a second with_range(r, d) above it.
Maps ==
    LET one == {AddRangeTo(<<>>, r, d).entries : r \in Ranges, d \in Devices}
        low == AddRangeTo(<<>>, [start |-> 0, end |-> 0],
                          Filled("Memory", TestData(1))).entries
        two == {AddRangeTo(low, r, d).entries : r \in Ranges, d \in Devices}
    IN {MemoryMap(es) : es \in one \cup two}

\* The routers that hold a router: MemoryMap::new().with_range(r, inner),
\* the boxed device being one of the routers above.
Nested ==
    {MemoryMap(AddRangeTo(<<>>, r, inner).entries) : r \in Ranges, inner \in Maps}

----------------------------------------------------------------------------
\* A router under construction and use

Init ==
    /\ entries = <<>>
    /\ dev = MemoryMap(<<>>)
    /\ built = dev
    /\ last = [op |-> "new"]
    /\ before = entries

\* The call recorded keeps the device that was pushed; a rejected call
\* unwinds and drops the box it was given.
AddRange ==
    \E range \in Ranges, device \in Devices :
        /\ Len(entries) < MaxEntries
        /\ LET r == AddRangeTo(entries, range, device) IN
            /\ entries' = r.entries
            /\ last' = [op |-> "add_range", range |-> range,
                        device |-> IF r.result = "ok" THEN device ELSE "dropped",
                        result |-> r.result]
        /\ before' = entries
        /\ UNCHANGED <<dev, built>>

\* with_range calls add_range and hands the router back: the call recorded
\* is that add_range.
WithRange ==
    \E range \in Ranges, device \in Devices :
        /\ Len(entries) < MaxEntries
        /\ LET r == AddRangeTo(entries, range, device) IN
            /\ entries' = r.entries
            /\ last' = [op |-> "add_range", range |-> range,
                        device |-> IF r.result = "ok" THEN device ELSE "dropped",
                        result |-> r.result]
        /\ before' = entries
        /\ UNCHANGED <<dev, built>>

Read ==
    \E address \in Addresses :
        /\ last' = [op |-> "read", address |-> address,
                    result |-> MapRead(entries, address)]
        /\ before' = entries
        /\ UNCHANGED <<entries, dev, built>>

Write ==
    \E address \in Addresses, data \in ByteValues :
        /\ LET w == MapWrite(entries, address, data) IN
            /\ entries' = w.entries
            /\ last' = [op |-> "write", address |-> address, data |-> data,
                        result |-> w.result]
        /\ before' = entries
        /\ UNCHANGED <<dev, built>>

Next == AddRange \/ WithRange \/ Read \/ Write

Spec == Init /\ [][Next]_vars

----------------------------------------------------------------------------
\* One finished device

DeviceInit ==
    /\ entries = <<>>
    /\ dev \in Stores \cup Maps
    /\ built = dev
    /\ last = [op |-> "new"]
    /\ before = dev

DevRead ==
    \E address \in Addresses :
        /\ last' = [op |-> "read", address |-> address,
                    result |-> DeviceRead(dev, address)]
        /\ before' = dev
        /\ UNCHANGED <<entries, dev, built>>

DevWrite ==
    \E address \in Addresses, data \in ByteValues :
        /\ LET w == DeviceWrite(dev, address, data) IN
            /\ dev' = w.device
            /\ last' = [op |-> "write", address |-> address, data |-> data,
                        result |-> w.result]
        /\ before' = dev
        /\ UNCHANGED <<entries, built>>

DevReadRegion ==
    \E address \in Addresses, SIZE \in 0..MaxRegion :
        /\ last' = [op |-> "read_region", address |-> address, size |-> SIZE,
                    result |-> ReadRegion(dev, address, SIZE)]
        /\ before' = dev
        /\ UNCHANGED <<entries, dev, built>>

DevWriteRegion ==
    \E address \in Addresses, data \in RegionData :
        /\ LET w == WriteRegion(dev, address, data) IN
            /\ dev' = w.device
            /\ last' = [op |-> "write_region", address |-> address,
                        data |-> data, result |-> w.result]
        /\ before' = dev
        /\ UNCHANGED <<entries, built>>

DeviceNext == DevRead \/ DevWrite \/ DevReadRegion \/ DevWriteRegion

DeviceSpec == DeviceInit /\ [][DeviceNext]_vars

----------------------------------------------------------------------------
\* A router registered as the device of an entry of another router

NestedInit ==
    /\ entries = <<>>
    /\ dev \in Nested
    /\ built = dev
    /\ last = [op |-> "new"]
    /\ before = dev

NestedNext == DevRead \/ DevWrite

NestedSpec == NestedInit /\ [][NestedNext]_vars

----------------------------------------------------------------------------
\* Properties of the router, under Spec

\* Some entry's range contains a.
Mapped(es, a) == \E i \in 1..Len(es) : Contains(es[i].range, a)

\* The first entry in insertion order whose range contains a.
First(es, a) ==
    CHOOSE i \in 1..Len(es) :
        /\ Contains(es[i].range, a)
        /\ \A j \in 1..(i - 1) : ~Contains(es[j].range, a)

\* The last call was a router read or write.
Accessed == last.op \in {"read", "write"}

\* C1: in every state of the router no two entries' ranges share an
\* address.
NoSharedAddress ==
    \A i, j \in 1..Len(entries) :
        i # j => \A a \in Addresses :
                    ~(Contains(entries[i].range, a) /\ Contains(entries[j].range, a))

\* C2: a read or write at a mapped address a is the read or write at
\* a - lo of the device of the first entry, in insertion order, whose range
\* lo..=hi contains a; at an address no entry contains, both return
\* AddressNotMapped{a}.
RouterDelegatesToFirst ==
    Accessed =>
        LET a == last.address IN
        IF Mapped(before, a)
        THEN LET i == First(before, a)
                 d == before[i].device
                 local == a - before[i].range.start
             IN IF last.op = "read"
                THEN last.result = DeviceRead(d, local)
                ELSE LET w == DeviceWrite(d, local, last.data) IN
                     /\ last.result = w.result
                     /\ entries[i].device = w.device
        ELSE last.result = AddressNotMapped(a)

\* C2 witness: a read answered by the first of two entries that both
\* contain the address.
ReadThroughFirstOfTwo ==
    /\ last.op = "read"
    /\ IsOk(last.result)
    /\ Len(entries) = 2
    /\ Contains(entries[1].range, last.address)
    /\ Contains(entries[2].range, last.address)
    /\ entries[1].range.start > 0

\* C3: when the device that owns a fails, the router returns the device's
\* error as it is: its address is the device-local a - lo, its size the
\* device's capacity, and it is never AddressNotMapped.
DeviceErrorIsLocal ==
    (Accessed /\ Mapped(entries, last.address) /\ ~IsOk(last.result)) =>
        LET e == entries[First(entries, last.address)]
            local == last.address - e.range.start
        IN /\ last.result.tag # "AddressNotMapped"
           /\ last.result.address = local
           /\ last.result.tag = "AddressOutOfBounds" =>
                /\ last.result.size = Len(e.device.data)
                /\ local >= Len(e.device.data)
           /\ last.result.tag = "AddressNotWritable" =>
                /\ last.op = "write"
                /\ e.device.kind = "ReadOnlyMemory"

\* C3 witness: a range wider than its device, read beyond the capacity at
\* an address whose local offset differs from it.
ReadBeyondCapacity ==
    /\ last.op = "read"
    /\ Mapped(entries, last.address)
    /\ last.result.tag = "AddressOutOfBounds"
    /\ last.result.address < last.address

\* C4: a router write at a changes at most the byte at offset a - lo of the
\* device that owns a, and nothing at all when it returns an error.
WriteTouchesOneByte ==
    last.op = "write" =>
        /\ Len(entries) = Len(before)
        /\ \A j \in 1..Len(before) :
            /\ entries[j].range = before[j].range
            /\ entries[j].device.kind = before[j].device.kind
            /\ Len(entries[j].device.data) = Len(before[j].device.data)
            /\ \A k \in 1..Len(before[j].device.data) :
                entries[j].device.data[k] # before[j].device.data[k] =>
                    /\ IsOk(last.result)
                    /\ j = First(before, last.address)
                    /\ k = last.address - before[j].range.start + 1
        /\ ~IsOk(last.result) => entries = before

\* C4 witness: a write that reached the second of two plain stores, at a
\* local offset other than 0.
WroteSecondEntry ==
    /\ last.op = "write"
    /\ IsOk(last.result)
    /\ Len(entries) = 2
    /\ entries[1].device.kind = "Memory"
    /\ Len(entries[1].device.data) >= 2
    /\ ~Contains(entries[1].range, last.address)
    /\ last.address > entries[2].range.start
    /\ entries[2].device.data # TestData(Len(entries[2].device.data))

----------------------------------------------------------------------------
\* Properties of one device, under DeviceSpec

\* The device is one of the two stores.
IsStore(d) == d.kind \in Kinds

\* The length of the region of the last read_region or write_region.
RegionLength ==
    IF last.op = "read_region" THEN last.size
    ELSE IF last.op = "write_region" THEN Len(last.data)
    ELSE 0

\* The addresses a region operation can reach, and those next to them.
Window == 0..(MaxAddr + MaxRegion)

\* C5: a read-only store answers every write with AddressNotWritable{a},
\* in bounds or not, and keeps the contents it was constructed with through
\* every write and write_region.
ReadOnlyNeverWritten ==
    dev.kind = "ReadOnlyMemory" =>
        /\ dev = built
        /\ last.op = "write" => last.result = AddressNotWritable(last.address)

\* C5 witness: a write beyond the capacity of a read-only store that is
\* not empty.
ReadOnlyWriteBeyondCapacity ==
    /\ dev.kind = "ReadOnlyMemory"
    /\ last.op = "write"
    /\ Len(dev.data) >= 1
    /\ last.address >= Len(dev.data)

\* C6 as stated: a region operation of length N > 0 on a zero-capacity
\* device of any kind fails with AddressOutOfBounds{address, 0}.
ZeroCapacityRegionOutOfBounds ==
    (IsStore(dev) /\ Len(dev.data) = 0 /\ RegionLength > 0) =>
        last.result = AddressOutOfBounds(last.address, 0)

\* C6 as amended: on a zero-capacity device a read_region of length N > 0,
\* and a write_region of length N > 0 on a plain store, fail with
\* AddressOutOfBounds{address, 0}; a write_region of length N > 0 on a
\* read-only store fails with AddressNotWritable{address}.
ZeroCapacityRegionFails ==
    (IsStore(dev) /\ Len(dev.data) = 0 /\ RegionLength > 0) =>
        IF last.op = "write_region" /\ dev.kind = "ReadOnlyMemory"
        THEN last.result = AddressNotWritable(last.address)
        ELSE last.result = AddressOutOfBounds(last.address, 0)

\* C6 witness: a read_region of two bytes or more on a zero-capacity store,
\* away from address 0.
ZeroCapacityRegionRead ==
    /\ IsStore(dev)
    /\ Len(dev.data) = 0
    /\ last.op = "read_region"
    /\ last.size >= 2
    /\ last.address > 0

\* The offset of the first byte of data that write refuses at address + k
\* on d, Len(data) when it refuses none.
FirstRefused(d, address, data) ==
    CHOOSE k \in 0..Len(data) :
        /\ k = Len(data) \/ ~IsOk(DeviceWrite(d, address + k, data[k + 1]).result)
        /\ \A i \in 0..(k - 1) :
            IsOk(DeviceWrite(d, address + i, data[i + 1]).result)

\* The description of d without the bytes it stores.
RECURSIVE Layout(_)
Layout(d) ==
    IF IsStore(d) THEN [kind |-> d.kind, size |-> Len(d.data)]
    ELSE [kind |-> d.kind,
          entries |-> [i \in 1..Len(d.entries) |->
                        [range |-> d.entries[i].range,
                         device |-> Layout(d.entries[i].device)]]]

\* What write_region does to device d, giving e, when k is the first
\* refused offset: bytes 0..k-1 of data are read back at address..address+k-1, every other
\* address reads as before, and on a store the bytes are exactly those.
PrefixCommitted(d, e, address, data, k) ==
    /\ Layout(e) = Layout(d)
    /\ \A i \in 0..(k - 1) : DeviceRead(e, address + i) = Ok(data[i + 1])
    /\ \A x \in Window :
        (x < address \/ x >= address + k) => DeviceRead(e, x) = DeviceRead(d, x)
    /\ IsStore(d) =>
        \A j \in 0..(Len(d.data) - 1) :
            e.data[j + 1] =
                IF address <= j /\ j < address + k THEN data[j - address + 1]
                ELSE d.data[j + 1]

\* write_region on the store or router returned the result of the write at
\* the first refused offset k, after committing bytes 0..k-1.
ReturnsFirstRefusal(k) ==
    /\ PrefixCommitted(before, dev, last.address, last.data, k)
    /\ k = Len(last.data) => last.result = OkUnit
    /\ k < Len(last.data) =>
        last.result =
            DeviceWrite(before, last.address + k, last.data[k + 1]).result

\* C7 as stated: write_region commits bytes 0..k-1 up to the first refused
\* offset k, writes no byte from k on, and returns the error of the write
\* at address + k, which carries address + k.
WriteRegionErrorAtByte ==
    last.op = "write_region" =>
        \A k \in {FirstRefused(before, last.address, last.data)} :
            /\ ReturnsFirstRefusal(k)
            /\ k < Len(last.data) => last.result.address = last.address + k

\* C7 as amended: write_region commits bytes 0..k-1 up to the first refused
\* offset k, writes no byte from k on, and returns the error of the write
\* at address + k as it is: on a store it carries address + k; a router
\* returns AddressNotMapped{address + k}, or the error of the device that
\* owns address + k with that device's local address.
WriteRegionCommitsPrefix ==
    last.op = "write_region" =>
        \A k \in {FirstRefused(before, last.address, last.data)} :
            /\ ReturnsFirstRefusal(k)
            /\ k < Len(last.data) =>
                LET b == last.address + k IN
                /\ IsStore(dev) => last.result.address = b
                /\ dev.kind = "MemoryMap" =>
                    IF Mapped(dev.entries, b)
                    THEN LET e == dev.entries[First(dev.entries, b)] IN
                         /\ last.result.tag # "AddressNotMapped"
                         /\ last.result.address = b - e.range.start
                    ELSE last.result = AddressNotMapped(b)

\* C7 witness: a write_region through a router that committed its first
\* byte and was refused by the owning device at a later one.
WriteRegionFailedPartway ==
    /\ last.op = "write_region"
    /\ dev.kind = "MemoryMap"
    /\ dev # built
    /\ last.result.tag = "AddressOutOfBounds"
    /\ last.result.address > 0

\* The offsets of the bytes of the last read_region that read refuses.
Failing ==
    {i \in 0..(last.size - 1) : ~IsOk(DeviceRead(dev, last.address + i))}

\* The first of them.
FirstFailing == CHOOSE i \in Failing : \A j \in Failing : i <= j

\* read_region is the single reads in order when all succeed, and the empty
\* sequence for count = 0.
ReadRegionAllRead ==
    /\ Failing = {} =>
        /\ IsOk(last.result)
        /\ Len(last.result.value) = last.size
        /\ \A i \in 0..(last.size - 1) :
            Ok(last.result.value[i + 1]) = DeviceRead(dev, last.address + i)
    /\ last.size = 0 => last.result = Ok(<<>>)

\* C8 as stated: read_region(address, count) is the bytes read(address) ..
\* read(address + count - 1) in that order when all succeed, else the error
\* of the first failing read, carrying that byte's address; with count = 0
\* it is the empty sequence.
ReadRegionErrorAtByte ==
    last.op = "read_region" =>
        /\ ReadRegionAllRead
        /\ Failing # {} =>
            /\ last.result = DeviceRead(dev, last.address + FirstFailing)
            /\ last.result.address = last.address + FirstFailing

\* C8 as amended: read_region(address, count) is the bytes read(address) ..
\* read(address + count - 1) in that order when all succeed, else the error
\* of the first failing read as it is: on a store
\* AddressOutOfBounds{address + k, size}; a router returns
\* AddressNotMapped{address + k}, or the error of the device that owns
\* address + k with that device's local address and size. With count = 0
\* it is the empty sequence.
ReadRegionIsReads ==
    last.op = "read_region" =>
        /\ ReadRegionAllRead
        /\ Failing # {} =>
            LET b == last.address + FirstFailing IN
            /\ last.result = DeviceRead(dev, b)
            /\ IsStore(dev) => last.result = AddressOutOfBounds(b, Len(dev.data))
            /\ dev.kind = "MemoryMap" =>
                IF Mapped(dev.entries, b)
                THEN LET e == dev.entries[First(dev.entries, b)] IN
                     last.result =
                        AddressOutOfBounds(b - e.range.start, Len(e.device.data))
                ELSE last.result = AddressNotMapped(b)

\* C8 witness: a read_region through a router that failed in the owning
\* device at a byte after its first.
ReadRegionFailedPartway ==
    /\ last.op = "read_region"
    /\ dev.kind = "MemoryMap"
    /\ last.result.tag = "AddressOutOfBounds"
    /\ FirstFailing > 0

\* C9: on a plain store of capacity S a write at a < S succeeds, read(a)
\* then yields v and every other byte keeps its value; a write at a >= S
\* returns AddressOutOfBounds{a, S} and changes nothing.
PlainWrite ==
    (last.op = "write" /\ before.kind = "Memory") =>
        LET a == last.address
            S == Len(before.data)
        IN IF a < S
           THEN /\ last.result = OkUnit
                /\ dev.kind = "Memory"
                /\ Len(dev.data) = S
                /\ DeviceRead(dev, a) = Ok(last.data)
                /\ \A j \in 0..(S - 1) :
                    j # a => dev.data[j + 1] = before.data[j + 1]
           ELSE /\ last.result = AddressOutOfBounds(a, S)
                /\ dev = before

\* C9 witness: a write beyond the capacity of a plain store that is not
\* empty.
PlainWriteBeyondCapacity ==
    /\ dev.kind = "Memory"
    /\ last.op = "write"
    /\ Len(dev.data) >= 1
    /\ last.address >= Len(dev.data)
    /\ ~IsOk(last.result)

\* C10: on a store of either kind and capacity S, read(a) returns the byte
\* stored at a when a < S and AddressOutOfBounds{a, S} otherwise, and
\* leaves the store as it is.
StoreReadInBounds ==
    (last.op = "read" /\ IsStore(before)) =>
        LET a == last.address
            S == Len(before.data)
        IN /\ dev = before
           /\ IsOk(last.result) <=> a < S
           /\ a < S => last.result = Ok(before.data[a + 1])
           /\ a >= S => last.result = AddressOutOfBounds(a, S)

\* C10 witness: a read of the last byte of a read-only store.
ReadOnlyReadLastByte ==
    /\ dev.kind = "ReadOnlyMemory"
    /\ last.op = "read"
    /\ IsOk(last.result)
    /\ last.address + 1 = Len(dev.data)

----------------------------------------------------------------------------
\* Properties of a router inside a router, under NestedSpec

\* C11: each layer re-bases on its own: when the outer entry lo1..=hi1 that
\* serves a holds an inner router, a read or write at a is the read or write
\* at a - lo1 - lo2 of the device D of the inner entry lo2..=hi2 that serves
\* a - lo1, and nothing but D changes; when no inner entry contains a - lo1
\* the call returns AddressNotMapped{a - lo1} and changes nothing.
NestedRebasesEachLayer ==
    (Accessed /\ Mapped(before.entries, last.address)) =>
        LET a == last.address
            i == First(before.entries, a)
            lo1 == before.entries[i].range.start
            inner == before.entries[i].device
        IN inner.kind = "MemoryMap" =>
            IF Mapped(inner.entries, a - lo1)
            THEN LET j == First(inner.entries, a - lo1)
                     lo2 == inner.entries[j].range.start
                     D == inner.entries[j].device
                 IN IF last.op = "read"
                    THEN /\ last.result = DeviceRead(D, a - lo1 - lo2)
                         /\ dev = before
                    ELSE LET w == DeviceWrite(D, a - lo1 - lo2, last.data) IN
                         /\ last.result = w.result
                         /\ dev = [before EXCEPT
                                    !.entries[i].device.entries[j].device = w.device]
            ELSE /\ last.result = AddressNotMapped(a - lo1)
                 /\ dev = before

\* C11 witness: a write that went through both layers, each with a range
\* starting above 0, and changed a byte of the innermost store.
WroteThroughTwoLayers ==
    /\ last.op = "write"
    /\ IsOk(last.result)
    /\ dev # before
    /\ dev.kind = "MemoryMap"
    /\ Len(dev.entries) = 1
    /\ dev.entries[1].range.start > 0
    /\ dev.entries[1].device.kind = "MemoryMap"
    /\ \E j \in 1..Len(dev.entries[1].device.entries) :
        LET e == dev.entries[1].device.entries[j] IN
        /\ e.range.start > 0
        /\ Contains(e.range, last.address - dev.entries[1].range.start)
        /\ e.device # before.entries[1].device.entries[j].device

====
